---- MODULE Spec2Model ----
(***************************************************************************)
(* A model of the login service: the header codec (parse_auth), the        *)
(* in-memory store (in_memory_db::Db), the fault-injecting decorator       *)
(* (FailDb, driven by the process-wide fail-point registry), the domain    *)
(* operations (register, login, logout, can_access_secret) and the         *)
(* simulator of tests/simulation_test.rs (run_simulator).                  *)
(*                                                                         *)
(* Text is a sequence of byte values.  An EncodedPassword is the record    *)
(* [argon2 |-> secret]: argon2::verify_encoded accepts exactly the secret  *)
(* the encoding was derived from, whatever salt Uuid::new_v4 drew, so the  *)
(* salt is not part of the state.  argon2 itself is taken not to fail      *)
(* (HashError needs a corrupted encoding, which the store never holds).    *)
(***************************************************************************)
EXTENDS Integers, Sequences, FiniteSets, TLC

VARIABLES
    users,      \* in_memory_db::Db.users : UserId -> EncodedPassword
    sessions,   \* in_memory_db::Db.sessions : set of UserId
    armed,      \* the fail crate's registry: the fail points configured "return"
    logged      \* history (HistSpec): per identity, "never" while no login of it has
                \* returned Ok(true), else "in" or "out" as its last successful
                \* login or logout was a login or a logout

    \* run_simulator (SimSpec)
VARIABLES
    not_registered, \* identities whose registration failed by an injected error
    registered,     \* identity -> the Pass of its successful registration
    sim_sessions,   \* the oracle's `sessions`
    no_session,     \* identities whose correct-password login failed by injection
    outcome,        \* "running", or what run_simulator returned
    nops            \* the operations of the vector handled so far

    \* concurrent callers (ConcSpec)
VARIABLES
    callers         \* per caller: the storage call it is in, and the call's arguments

    \* a second run of run_simulator in the same process (ReplaySpec)
VARIABLES
    replay          \* the second run's store, its view of the registry and its locals

    \* one use of the header codec (CodecSpec)
VARIABLES
    codec           \* the identity and secret drawn, the header built, what it parsed to

    \* the mutexes of in_memory_db::Db (LockSpec)
VARIABLES
    locks           \* per container, the caller inside its lock() guard, or Free

sim == <<not_registered, registered, sim_sessions, no_session, outcome, nops>>
vars == <<users, sessions, armed, logged, sim, callers, replay, codec, locks>>

(* ------------------------------- bounds -------------------------------- *)

\* The identity pool of Spec and SimSpec, and the secret pool.
NumUsers == 5
NumPasswords == 2
\* The identity pool of HistSpec, which also carries the login history.
NumTracked == 4
\* The longest operation vector SimSpec hands to run_simulator.
MaxOps == 6
\* The concurrent callers of ConcSpec and the identities they share.
NumCallers == 2
NumShared == 2
\* The identity pool and the longest operation vector of ReplaySpec.
NumReplayed == 2
MaxReplayOps == 4
\* CodecSpec: the longest identity and the longest secret, in characters.
MaxTextLen == 3
\* DecoSpec: the identities in use.
NumDecorated == 3
\* LockSpec: the identities in use.
NumLocked == 1

(* ------------------------- program constants --------------------------- *)

\* in_memory_db.rs: `if m.len() >= 4`
MaxUsers == 4

(* ------------------------------- texts --------------------------------- *)

\* ':' , the separator of splitn(2, ':')
Colon == 58

\* "Basic "
BASIC == <<66, 97, 115, 105, 99, 32>>

\* The identity pool: "A", "B", ... (TEST_USERS of the simulator).
UserText(i) == <<64 + i>>
UserIds == {UserText(i) : i \in 1..NumUsers}

\* The secret pool: "h" stands for the simulator's "hunter2", then "i", ...
PassText(j) == <<103 + j>>
Passwords == {PassText(j) : j \in 1..NumPasswords}
Hunter2 == PassText(1)

(* ------------------------------ base64 --------------------------------- *)

B64Char(v) ==
    IF v < 26 THEN 65 + v
    ELSE IF v < 52 THEN 71 + v
    ELSE IF v < 62 THEN v - 4
    ELSE IF v = 62 THEN 43
    ELSE 47

B64Val(c) ==
    IF c >= 65 /\ c <= 90 THEN c - 65
    ELSE IF c >= 97 /\ c <= 122 THEN c - 71
    ELSE IF c >= 48 /\ c <= 57 THEN c + 4
    ELSE IF c = 43 THEN 62
    ELSE IF c = 47 THEN 63
    ELSE -1

RECURSIVE Base64Encode(_)
Base64Encode(bs) ==
    IF Len(bs) = 0 THEN <<>>
    ELSE IF Len(bs) = 1 THEN
        LET n == bs[1] * 65536
        IN  <<B64Char(n \div 262144), B64Char((n \div 4096) % 64), 61, 61>>
    ELSE IF Len(bs) = 2 THEN
        LET n == bs[1] * 65536 + bs[2] * 256
        IN  <<B64Char(n \div 262144), B64Char((n \div 4096) % 64),
              B64Char((n \div 64) % 64), 61>>
    ELSE
        LET n == bs[1] * 65536 + bs[2] * 256 + bs[3]
        IN  <<B64Char(n \div 262144), B64Char((n \div 4096) % 64),
              B64Char((n \div 64) % 64), B64Char(n % 64)>>
            \o Base64Encode(SubSeq(bs, 4, Len(bs)))

\* base64::decode of canonical, padded text; anything else is an error.
RECURSIVE Base64Decode(_)
Base64Decode(cs) ==
    IF Len(cs) = 0 THEN [ok |-> TRUE, bytes |-> <<>>]
    ELSE IF Len(cs) < 4 THEN [ok |-> FALSE, bytes |-> <<>>]
    ELSE
        LET a == B64Val(cs[1])
            b == B64Val(cs[2])
            c == B64Val(cs[3])
            d == B64Val(cs[4])
            final == Len(cs) = 4
        IN  IF a < 0 \/ b < 0 THEN [ok |-> FALSE, bytes |-> <<>>]
            ELSE IF final /\ cs[3] = 61 /\ cs[4] = 61 THEN
                IF b % 16 = 0
                THEN [ok |-> TRUE, bytes |-> <<a * 4 + b \div 16>>]
                ELSE [ok |-> FALSE, bytes |-> <<>>]
            ELSE IF c < 0 THEN [ok |-> FALSE, bytes |-> <<>>]
            ELSE IF final /\ cs[4] = 61 THEN
                IF c % 4 = 0
                THEN [ok |-> TRUE,
                      bytes |-> <<a * 4 + b \div 16, (b % 16) * 16 + c \div 4>>]
                ELSE [ok |-> FALSE, bytes |-> <<>>]
            ELSE IF d < 0 THEN [ok |-> FALSE, bytes |-> <<>>]
            ELSE
                LET rest == Base64Decode(SubSeq(cs, 5, Len(cs)))
                IN  IF rest.ok
                    THEN [ok |-> TRUE,
                          bytes |-> <<a * 4 + b \div 16, (b % 16) * 16 + c \div 4,
                                      (c % 4) * 64 + d>> \o rest.bytes]
                    ELSE [ok |-> FALSE, bytes |-> <<>>]

(* ---------------------------- header codec ----------------------------- *)

\* auth_header: format!("Basic {}", base64::encode(format!("{}:{}", user, pass)))
auth_header(user, pass) == BASIC \o Base64Encode(user \o <<Colon>> \o pass)

StartsWith(s, prefix) ==
    Len(s) >= Len(prefix) /\ SubSeq(s, 1, Len(prefix)) = prefix

\* String::from_utf8: every byte is an ASCII byte, the lead byte of a two-byte
\* character with its continuation byte behind it, or that continuation byte.
\* Longer characters are outside the model's alphabet and are taken as invalid.
ValidUtf8(bs) ==
    \A i \in 1..Len(bs) :
        \/ bs[i] < 128
        \/ bs[i] >= 194 /\ bs[i] <= 223 /\ i < Len(bs) /\ bs[i + 1] >= 128 /\ bs[i + 1] <= 191
        \/ bs[i] >= 128 /\ bs[i] <= 191 /\ i > 1 /\ bs[i - 1] >= 194 /\ bs[i - 1] <= 223

\* The index of the last ':' of s, or 0: where rsplitn(2, ':') would split.
LastColon(s) ==
    IF \E i \in 1..Len(s) : s[i] = Colon
    THEN CHOOSE i \in 1..Len(s) : s[i] = Colon /\ \A j \in (i + 1)..Len(s) : s[j] # Colon
    ELSE 0

\* The index of the first ':' of s, or 0.
FirstColon(s) ==
    IF \E i \in 1..Len(s) : s[i] = Colon
    THEN CHOOSE i \in 1..Len(s) : s[i] = Colon /\ \A j \in 1..(i - 1) : s[j] # Colon
    ELSE 0

\* A value that is used several times is bound as the element of a one-element set,
\* { e : x \in {v} }, and taken out of it by CHOOSE: v is then computed once.
parse_auth(auth_header_) ==
    IF ~StartsWith(auth_header_, BASIC)
    THEN [err |-> "Malformed Header", user |-> <<>>, pass |-> <<>>]
    ELSE CHOOSE parts \in
        { IF ~dec.ok
          THEN [err |-> "Malformed Header", user |-> <<>>, pass |-> <<>>]
          ELSE IF ~ValidUtf8(dec.bytes)
          THEN [err |-> "UTF8 conversion failed", user |-> <<>>, pass |-> <<>>]
          ELSE
              LET at == FirstColon(dec.bytes)
              IN  IF at = 0
                  THEN [err |-> "Malformed Header", user |-> <<>>, pass |-> <<>>]
                  ELSE [err |-> "none",
                        user |-> SubSeq(dec.bytes, 1, at - 1),
                        pass |-> SubSeq(dec.bytes, at + 1, Len(dec.bytes))] :
          dec \in {Base64Decode(SubSeq(auth_header_, Len(BASIC) + 1,
                                       Len(auth_header_)))} } : TRUE

(* ------------------------------ results -------------------------------- *)

\* Result<T, E>: Ok(v) carries the value's text; Err(kind, inner) carries the error
\* variant and, for a DbError, the anyhow message it wraps.
Ok(v) == [ok |-> TRUE, val |-> v, inner |-> ""]
Err(kind, inner_) == [ok |-> FALSE, val |-> kind, inner |-> inner_]

FailPoints ==
    {"db.register", "db.add_session", "db.remove_session", "db.get_pw", "db.has_session"}

\* anyhow!("<name> failpoint")
FailpointMessage(name) ==
    CASE name = "db.register" -> "db.register failpoint"
      [] name = "db.add_session" -> "db.add_session failpoint"
      [] name = "db.remove_session" -> "db.remove_session failpoint"
      [] name = "db.get_pw" -> "db.get_pw failpoint"
      [] name = "db.has_session" -> "db.has_session failpoint"

\* fail_point! as it would be if any configured name made every fail point return.
fail_point_any(fp, name) == fp # {}

\* fail_point!(name, |_| Err(..)) : whether the registry makes the point return early.
fail_point(fp, name) == name \in fp

(* --------------------------- Credential Vault -------------------------- *)

\* EnteredPassword::encode
encode(pass) == [argon2 |-> pass]

\* EncodedPassword::verify
verify(encoded, entered_password) == encoded.argon2 = entered_password

(* ---------------------------- Reference Store -------------------------- *)

\* HashMap::insert
Insert(m, k, v) == [x \in (DOMAIN m) \cup {k} |-> IF x = k THEN v ELSE m[x]]

\* The credential of a never registered identity: Option::None of get_pw.
None == [argon2 |-> <<>>]

\* Every storage call returns [res, val, db, calls]: the DbResult, the value inside
\* Ok where there is one, the store afterwards and the calls made on the wrapped
\* store.  Db::register returns one outcome per key m.keys().next() may yield: the
\* iteration order of a HashMap is unspecified.
\* Db::register as it would be if a full table only overwrote the entry it picked.
Db_register_full_drops(db, user_id, password) ==
    LET m == db.users
        firsts == IF Cardinality(DOMAIN m) >= MaxUsers THEN DOMAIN m ELSE {user_id}
    IN  { [res |-> Ok("()"), val |-> None,
           db |-> [db EXCEPT !.users =
                      IF Cardinality(DOMAIN m) >= MaxUsers
                      THEN Insert(m, k, password)
                      ELSE Insert(m, user_id, password)],
           calls |-> <<"register">>] : k \in firsts }

Db_register(db, user_id, password) ==
    LET m == db.users
        firsts == IF Cardinality(DOMAIN m) >= MaxUsers THEN DOMAIN m ELSE {user_id}
    IN  { [res |-> Ok("()"), val |-> None,
           db |-> [db EXCEPT !.users =
                      IF Cardinality(DOMAIN m) >= MaxUsers
                      THEN Insert(Insert(m, k, password), user_id, password)
                      ELSE Insert(m, user_id, password)],
           calls |-> <<"register">>] : k \in firsts }

Db_add_session(db, user_id) ==
    [res |-> Ok("()"), val |-> None,
     db |-> [db EXCEPT !.sessions = @ \cup {user_id}],
     calls |-> <<"add_session">>]

\* Db::remove_session as it would be if it left the set alone.
Db_remove_session_keeps(db, user_id) ==
    [res |-> Ok("()"), val |-> None, db |-> db, calls |-> <<"remove_session">>]

Db_remove_session(db, user_id) ==
    [res |-> Ok("()"), val |-> None,
     db |-> [db EXCEPT !.sessions = @ \ {user_id}],
     calls |-> <<"remove_session">>]

\* Db_get_pw answering an absent identity with an empty credential instead of None.
Db_get_pw_default(db, user_id) ==
    [res |-> Ok("Some"),
     val |-> IF user_id \in DOMAIN db.users THEN db.users[user_id] ELSE encode(<<>>),
     db |-> db,
     calls |-> <<"get_pw">>]

Db_get_pw(db, user_id) ==
    [res |-> Ok(IF user_id \in DOMAIN db.users THEN "Some" ELSE "None"),
     val |-> IF user_id \in DOMAIN db.users THEN db.users[user_id] ELSE None,
     db |-> db,
     calls |-> <<"get_pw">>]

Db_has_session(db, user_id) ==
    [res |-> Ok(IF user_id \in db.sessions THEN "true" ELSE "false"),
     val |-> None, db |-> db, calls |-> <<"has_session">>]

(* ------------------------ Fault-Injecting Decorator -------------------- *)

Injected(db, name) ==
    [res |-> Err("DbError", FailpointMessage(name)), val |-> None, db |-> db,
     calls |-> <<>>]

FailDb_register(db, fp, user_id, password) ==
    IF fail_point(fp, "db.register")
    THEN {Injected(db, "db.register")}
    ELSE Db_register(db, user_id, password)

FailDb_add_session(db, fp, user_id) ==
    IF fail_point(fp, "db.add_session")
    THEN Injected(db, "db.add_session")
    ELSE Db_add_session(db, user_id)

\* FailDb::remove_session as it would be if the fail point were consulted after the
\* wrapped store had been called.
FailDb_remove_session_late(db, fp, user_id) ==
    LET done == Db_remove_session(db, user_id)
    IN  IF fail_point(fp, "db.remove_session")
        THEN [done EXCEPT !.res = Err("DbError", FailpointMessage("db.remove_session"))]
        ELSE done

FailDb_remove_session(db, fp, user_id) ==
    IF fail_point(fp, "db.remove_session")
    THEN Injected(db, "db.remove_session")
    ELSE Db_remove_session(db, user_id)

FailDb_get_pw(db, fp, user_id) ==
    IF fail_point(fp, "db.get_pw")
    THEN Injected(db, "db.get_pw")
    ELSE Db_get_pw(db, user_id)

FailDb_has_session(db, fp, user_id) ==
    IF fail_point(fp, "db.has_session")
    THEN Injected(db, "db.has_session")
    ELSE Db_has_session(db, user_id)

(* --------------------------- Domain Operations ------------------------- *)

\* A domain call returns [res, db, calls].
can_access_secret(db, fp, user_id) ==
    LET h == FailDb_has_session(db, fp, user_id)
    IN  [res |-> h.res, db |-> h.db, calls |-> h.calls]

\* login as it would be if a wrong secret were answered after opening the session.
login_opens_unverified(db, fp, auth_header_) ==
    CHOOSE returned \in
        { IF parsed.err # "none"
          THEN [res |-> Err("ParseAuthError", parsed.err), db |-> db, calls |-> <<>>]
          ELSE
              LET got == FailDb_get_pw(db, fp, parsed.user)
                  added == FailDb_add_session(got.db, fp, parsed.user)
              IN  IF ~got.res.ok
                  THEN [res |-> got.res, db |-> got.db, calls |-> got.calls]
                  ELSE IF got.res.val = "None"
                  THEN [res |-> Ok("false"), db |-> got.db, calls |-> got.calls]
                  ELSE IF ~added.res.ok
                  THEN [res |-> added.res, db |-> added.db, calls |-> got.calls]
                  ELSE IF verify(got.val, parsed.pass)
                  THEN [res |-> Ok("true"), db |-> added.db,
                        calls |-> got.calls \o added.calls]
                  ELSE [res |-> Err("InvalidCredentials", ""), db |-> added.db,
                        calls |-> got.calls \o added.calls] :
          parsed \in {parse_auth(auth_header_)} } : TRUE

\* login as it would be if the session were opened before the secret is verified.
login_opens_first(db, fp, auth_header_) ==
    CHOOSE returned \in
        { IF parsed.err # "none"
          THEN [res |-> Err("ParseAuthError", parsed.err), db |-> db, calls |-> <<>>]
          ELSE
              LET got == FailDb_get_pw(db, fp, parsed.user)
                  added == FailDb_add_session(got.db, fp, parsed.user)
              IN  IF ~got.res.ok
                  THEN [res |-> got.res, db |-> got.db, calls |-> got.calls]
                  ELSE IF ~added.res.ok
                  THEN [res |-> added.res, db |-> added.db, calls |-> got.calls]
                  ELSE IF got.res.val = "None"
                  THEN [res |-> Ok("false"), db |-> added.db,
                        calls |-> got.calls \o added.calls]
                  ELSE IF verify(got.val, parsed.pass)
                  THEN [res |-> Ok("true"), db |-> added.db,
                        calls |-> got.calls \o added.calls]
                  ELSE [res |-> Err("InvalidCredentials", ""), db |-> added.db,
                        calls |-> got.calls \o added.calls] :
          parsed \in {parse_auth(auth_header_)} } : TRUE

login(db, fp, auth_header_) ==
    CHOOSE returned \in
        { IF parsed.err # "none"
          THEN [res |-> Err("ParseAuthError", parsed.err), db |-> db, calls |-> <<>>]
          ELSE
              LET got == FailDb_get_pw(db, fp, parsed.user)
              IN  IF ~got.res.ok
                  THEN [res |-> got.res, db |-> got.db, calls |-> got.calls]
                  ELSE IF got.res.val = "None"
                  THEN [res |-> Ok("false"), db |-> got.db, calls |-> got.calls]
                  ELSE IF verify(got.val, parsed.pass)
                  THEN
                      LET added == FailDb_add_session(got.db, fp, parsed.user)
                      IN  [res |-> IF added.res.ok THEN Ok("true") ELSE added.res,
                           db |-> added.db, calls |-> got.calls \o added.calls]
                  ELSE [res |-> Err("InvalidCredentials", ""), db |-> got.db,
                        calls |-> got.calls] :
          parsed \in {parse_auth(auth_header_)} } : TRUE

\* logout as it would be if it closed the session only for the stored secret.
logout_verifies(db, fp, auth_header_) ==
    CHOOSE returned \in
        { IF parsed.err # "none"
          THEN [res |-> Err("ParseAuthError", parsed.err), db |-> db, calls |-> <<>>]
          ELSE
              LET got == FailDb_get_pw(db, fp, parsed.user)
                  removed == FailDb_remove_session(got.db, fp, parsed.user)
              IN  IF ~got.res.ok
                  THEN [res |-> got.res, db |-> got.db, calls |-> got.calls]
                  ELSE IF got.res.val = "Some" /\ verify(got.val, parsed.pass)
                  THEN [res |-> removed.res, db |-> removed.db,
                        calls |-> got.calls \o removed.calls]
                  ELSE [res |-> Ok("()"), db |-> got.db, calls |-> got.calls] :
          parsed \in {parse_auth(auth_header_)} } : TRUE

logout(db, fp, auth_header_) ==
    CHOOSE returned \in
        { IF parsed.err # "none"
          THEN [res |-> Err("ParseAuthError", parsed.err), db |-> db, calls |-> <<>>]
          ELSE
              LET removed == FailDb_remove_session(db, fp, parsed.user)
              IN  [res |-> removed.res, db |-> removed.db, calls |-> removed.calls] :
          parsed \in {parse_auth(auth_header_)} } : TRUE

register(db, fp, user_id, pass) ==
    { [res |-> r.res, db |-> r.db, calls |-> r.calls] :
        r \in FailDb_register(db, fp, user_id, encode(pass)) }

(* ----------------------- sequential callers: Spec ---------------------- *)

\* The store as the operators take it.
Db == [users |-> users, sessions |-> sessions]

\* Headers a caller may present: the token of every identity and secret of the
\* pools, and one header for each way parse_auth rejects.
MalformedHeaders ==
    { <<>>,                                 \* no "Basic " prefix
      BASIC \o <<33>>,                      \* not base64
      BASIC \o Base64Encode(<<255>>),       \* not UTF-8
      BASIC \o Base64Encode(<<65>>) }       \* no colon
HeadersOf(ids) == {auth_header(u, p) : u \in ids, p \in Passwords} \cup MalformedHeaders
Headers == HeadersOf(UserIds)

\* The locals of run_simulator as the operators take them.
SimState ==
    [db |-> Db, fp |-> armed, not_registered |-> not_registered,
     registered |-> registered, sessions |-> sim_sessions, no_session |-> no_session,
     outcome |-> outcome]

InitStore ==
    /\ users = <<>>
    /\ sessions = {}
    /\ armed = {}

InitSim ==
    /\ not_registered = {}
    /\ registered = <<>>
    /\ sim_sessions = {}
    /\ no_session = {}
    /\ outcome = "running"
    /\ nops = 0

\* Mutex::default(): no caller is inside a guard.
Free == 0
NoLocks == [users |-> Free, sessions |-> Free]

\* No header has been built (a built one starts with "Basic ") and none parsed.
Pending == [err |-> "pending", user |-> <<>>, pass |-> <<>>]
NoCodec == [user |-> <<>>, pass |-> <<>>, header |-> <<>>, parsed |-> Pending]

Callers == 1..NumCallers
Idle == [pc |-> "idle", user |-> <<>>, pass |-> <<>>]

Init ==
    /\ InitStore
    /\ logged = [u \in UserIds |-> "never"]
    /\ InitSim
    /\ callers = [t \in Callers |-> Idle]
    /\ replay = SimState
    /\ codec = NoCodec
    /\ locks = NoLocks

\* One call of a domain operation by a caller that waits for it to return.  What the
\* call returns is the res of the operator's outcome.
Register(user_id, pass) ==
    \E o \in register(Db, armed, user_id, pass) :
        /\ users' = o.db.users
        /\ sessions' = o.db.sessions
        /\ UNCHANGED armed

Login(auth_header_) ==
    \E o \in {login(Db, armed, auth_header_)} :
        /\ users' = o.db.users
        /\ sessions' = o.db.sessions
        /\ UNCHANGED armed

Logout(auth_header_) ==
    \E o \in {logout(Db, armed, auth_header_)} :
        /\ users' = o.db.users
        /\ sessions' = o.db.sessions
        /\ UNCHANGED armed

AccessSecret(user_id) ==
    \E o \in {can_access_secret(Db, armed, user_id)} :
        /\ users' = o.db.users
        /\ sessions' = o.db.sessions
        /\ UNCHANGED armed

\* fail::cfg as it would be if configuring one fail point dropped the others.
Fail_replaces(fail_point_name) ==
    /\ armed' = {fail_point_name}
    /\ UNCHANGED <<users, sessions>>

\* fail::cfg(name, "return")
Fail(fail_point_name) ==
    /\ armed' = armed \cup {fail_point_name}
    /\ UNCHANGED <<users, sessions>>

Next ==
    \/ \E u \in UserIds, p \in Passwords : Register(u, p) /\ UNCHANGED <<logged, sim, callers, replay, codec, locks>>
    \/ \E h \in Headers : Login(h) /\ UNCHANGED <<logged, sim, callers, replay, codec, locks>>
    \/ \E h \in Headers : Logout(h) /\ UNCHANGED <<logged, sim, callers, replay, codec, locks>>
    \/ \E u \in UserIds : AccessSecret(u) /\ UNCHANGED <<logged, sim, callers, replay, codec, locks>>
    \/ \E n \in FailPoints : Fail(n) /\ UNCHANGED <<logged, sim, callers, replay, codec, locks>>

Spec == Init /\ [][Next]_vars

(* ------------- sequential callers with the login history: HistSpec ----- *)

TrackedIds == {UserText(i) : i \in 1..NumTracked}

\* The history after a login or logout that returned res for the header's identity.
Tracked(auth_header_, res, to) ==
    LET parsed == parse_auth(auth_header_)
    IN  IF parsed.err = "none" /\ parsed.user \in DOMAIN logged /\ res = to.on
        THEN [logged EXCEPT ![parsed.user] = IF to.val = "out" /\ @ = "never" THEN @ ELSE to.val]
        ELSE logged

HistLogin(auth_header_) ==
    /\ Login(auth_header_)
    /\ UNCHANGED <<sim, callers, replay, codec, locks>>
    /\ logged' = Tracked(auth_header_, login(Db, armed, auth_header_).res,
                       [on |-> Ok("true"), val |-> "in"])

HistLogout(auth_header_) ==
    /\ Logout(auth_header_)
    /\ UNCHANGED <<sim, callers, replay, codec, locks>>
    /\ logged' = Tracked(auth_header_, logout(Db, armed, auth_header_).res,
                       [on |-> Ok("()"), val |-> "out"])

HistNext ==
    \/ \E u \in TrackedIds, p \in Passwords : Register(u, p) /\ UNCHANGED <<logged, sim, callers, replay, codec, locks>>
    \/ \E h \in HeadersOf(TrackedIds) : HistLogin(h)
    \/ \E h \in HeadersOf(TrackedIds) : HistLogout(h)
    \/ \E u \in TrackedIds : AccessSecret(u) /\ UNCHANGED <<logged, sim, callers, replay, codec, locks>>
    \/ \E n \in FailPoints : Fail(n) /\ UNCHANGED <<logged, sim, callers, replay, codec, locks>>

HistSpec == Init /\ [][HistNext]_vars

(* ----------------------- run_simulator: SimSpec ------------------------ *)

\* assert_failpoint_err: Ok(()) exactly when the error's text contains "failpoint",
\* which of the errors of the stack only a DbError wrapping an injected message does.
assert_failpoint_err(e) ==
    e.val = "DbError" /\ e.inner \in {FailpointMessage(n) : n \in FailPoints}

\* Err(e.into()): what run_simulator returns on an error that is not injected.
Genuine(e) ==
    CASE e.val = "InvalidCredentials" -> "Err(Invalid Credentials)"
      [] e.val = "ParseAuthError" -> "Err(Malformed Header)"
      [] OTHER -> "Err(Db Error)"

\* return / bail! / `?`
Stop(st, why) == [st EXCEPT !.outcome = why]

\* The match on one Op.  The arms written `Ok(()) =>` take every Ok of login.
HandleOp(st, op) ==
    CASE op.kind = "Register" ->
            IF op.user \in DOMAIN st.registered
            THEN {st}
            ELSE { IF o.res.ok
                   THEN [st EXCEPT !.db = o.db,
                                   !.not_registered = @ \ {op.user},
                                   !.registered = Insert(@, op.user, op.pass)]
                   ELSE IF assert_failpoint_err(o.res)
                   THEN [st EXCEPT !.db = o.db, !.not_registered = @ \cup {op.user}]
                   ELSE Stop(st, Genuine(o.res)) :
                   o \in register(st.db, st.fp, op.user, op.pass) }
      [] op.kind = "LoginWithCorrectPw" ->
            IF op.user \notin DOMAIN st.registered
            THEN {st}
            ELSE { IF o.res.ok
                   THEN [st EXCEPT !.db = o.db, !.sessions = @ \cup {op.user}]
                   ELSE IF assert_failpoint_err(o.res)
                   THEN [st EXCEPT !.db = o.db, !.no_session = @ \cup {op.user}]
                   ELSE Stop(st, Genuine(o.res)) :
                   o \in {login(st.db, st.fp,
                                auth_header(op.user, st.registered[op.user]))} }
      [] op.kind = "LoginWithWrongPw" ->
            { IF o.res.ok
              THEN Stop(st, "Ok(false)")
              ELSE IF op.user \in DOMAIN st.registered /\ o.res.val = "InvalidCredentials"
              THEN [st EXCEPT !.db = o.db]
              ELSE IF op.user \notin DOMAIN st.registered /\ o.res.val = "NotRegistered"
              THEN [st EXCEPT !.db = o.db]
              ELSE IF assert_failpoint_err(o.res)
              THEN [st EXCEPT !.db = o.db]
              ELSE Stop(st, Genuine(o.res)) :
              o \in {login(st.db, st.fp, auth_header(op.user, Hunter2))} }
      [] op.kind = "Logout" ->
            LET pass == IF op.user \in DOMAIN st.registered
                        THEN st.registered[op.user] ELSE Hunter2
            IN  { IF o.res.ok
                  THEN [st EXCEPT !.db = o.db, !.sessions = @ \ {op.user}]
                  ELSE IF assert_failpoint_err(o.res)
                  THEN [st EXCEPT !.db = o.db]
                  ELSE Stop(st, Genuine(o.res)) :
                  o \in {logout(st.db, st.fp, auth_header(op.user, pass))} }
      [] op.kind = "AccessSecret" ->
            { IF o.res.ok
              THEN IF (op.user \in st.sessions) # (o.res.val = "true")
                   THEN Stop(st, "Ok(false)")
                   ELSE [st EXCEPT !.db = o.db]
              ELSE IF assert_failpoint_err(o.res)
              THEN [st EXCEPT !.db = o.db]
              ELSE Stop(st, Genuine(o.res)) :
              o \in {can_access_secret(st.db, st.fp, op.user)} }
      [] op.kind = "Fail" ->
            {[st EXCEPT !.fp = @ \cup {op.name}]}

\* The body of the loop as it would be if a failed logout of the login-then-logout
\* check left the oracle as it was.
CheckRegistered_forgets(st, user_id) ==
    IF user_id \in st.not_registered
    THEN {Stop(st, "bail: in registered and unregistered at once")}
    ELSE IF user_id \in st.sessions
    THEN
        UNION { IF out.res.ok
                THEN { IF back.res.ok
                       THEN [st EXCEPT !.db = back.db]
                       ELSE IF assert_failpoint_err(back.res)
                       THEN [st EXCEPT !.db = back.db, !.sessions = @ \ {user_id}]
                       ELSE Stop(st, Genuine(back.res)) :
                       back \in {login(out.db, st.fp,
                                       auth_header(user_id, st.registered[user_id]))} }
                ELSE IF assert_failpoint_err(out.res)
                THEN {[st EXCEPT !.db = out.db]}
                ELSE {Stop(st, Genuine(out.res))} :
                out \in {logout(st.db, st.fp,
                                auth_header(user_id, st.registered[user_id]))} }
    ELSE
        UNION { IF acc.res = Ok("true")
                THEN {Stop(st, "bail: has no session but can access secret")}
                ELSE IF ~acc.res.ok /\ ~assert_failpoint_err(acc.res)
                THEN {Stop(st, Genuine(acc.res))}
                ELSE IF in.res.ok
                THEN { IF out.res.ok
                       THEN [st EXCEPT !.db = out.db]
                       ELSE IF assert_failpoint_err(out.res)
                       THEN [st EXCEPT !.db = out.db]
                       ELSE Stop(st, Genuine(out.res)) :
                       out \in {logout(in.db, st.fp,
                                       auth_header(user_id, st.registered[user_id]))} }
                ELSE IF assert_failpoint_err(in.res)
                THEN {[st EXCEPT !.db = in.db]}
                ELSE {Stop(st, Genuine(in.res))} :
                acc \in {can_access_secret(st.db, st.fp, user_id)},
                in \in {login(st.db, st.fp,
                              auth_header(user_id, st.registered[user_id]))} }

\* The body of `for (user_id, pass) in &registered` for one entry: the set holding
\* the locals after it.
CheckRegistered(st, user_id) ==
    IF user_id \in st.not_registered
    THEN {Stop(st, "bail: in registered and unregistered at once")}
    ELSE IF user_id \in st.sessions
    THEN
        UNION { IF out.res.ok
                THEN { IF back.res.ok
                       THEN [st EXCEPT !.db = back.db]
                       ELSE IF assert_failpoint_err(back.res)
                       THEN [st EXCEPT !.db = back.db, !.sessions = @ \ {user_id}]
                       ELSE Stop(st, Genuine(back.res)) :
                       back \in {login(out.db, st.fp,
                                       auth_header(user_id, st.registered[user_id]))} }
                ELSE IF assert_failpoint_err(out.res)
                THEN {[st EXCEPT !.db = out.db]}
                ELSE {Stop(st, Genuine(out.res))} :
                out \in {logout(st.db, st.fp,
                                auth_header(user_id, st.registered[user_id]))} }
    ELSE
        UNION { IF acc.res = Ok("true")
                THEN {Stop(st, "bail: has no session but can access secret")}
                ELSE IF ~acc.res.ok /\ ~assert_failpoint_err(acc.res)
                THEN {Stop(st, Genuine(acc.res))}
                ELSE IF in.res.ok
                THEN { IF out.res.ok
                       THEN [st EXCEPT !.db = out.db]
                       ELSE IF assert_failpoint_err(out.res)
                       THEN [st EXCEPT !.db = out.db,
                                       !.sessions = @ \cup {user_id},
                                       !.no_session = @ \ {user_id}]
                       ELSE Stop(st, Genuine(out.res)) :
                       out \in {logout(in.db, st.fp,
                                       auth_header(user_id, st.registered[user_id]))} }
                ELSE IF assert_failpoint_err(in.res)
                THEN {[st EXCEPT !.db = in.db]}
                ELSE {Stop(st, Genuine(in.res))} :
                acc \in {can_access_secret(st.db, st.fp, user_id)},
                in \in {login(st.db, st.fp,
                              auth_header(user_id, st.registered[user_id]))} }

\* The loop over the entries `todo`, from the locals st: the set holding the locals
\* the loop ends with.
RECURSIVE CheckAllRegistered(_, _)
CheckAllRegistered(st, todo) ==
    IF todo = {} \/ st.outcome # "running"
    THEN {st}
    ELSE LET user_id == CHOOSE u \in todo : TRUE
         IN  UNION { CheckAllRegistered(next, todo \ {user_id}) :
                     next \in CheckRegistered(st, user_id) }

\* `for (user_id, pass) in &registered`.  One entry's checks touch that identity's
\* session and oracle entries only, so the entries that stop the run are the same in
\* every iteration order of the HashMap, and any of them may come first.
RegisteredChecks(st) ==
    IF \E u \in DOMAIN st.registered :
           \E s \in CheckRegistered(st, u) : s.outcome # "running"
    THEN { s \in UNION {CheckRegistered(st, u) : u \in DOMAIN st.registered} :
           s.outcome # "running" }
    ELSE CheckAllRegistered(st, DOMAIN st.registered)

\* The body of `for session in &sessions` for one entry.
CheckSession(st, session) ==
    IF session \in st.no_session
    THEN "bail: in session and no_session at once"
    ELSE IF session \notin DOMAIN st.registered
    THEN "bail: in session but not registered"
    ELSE CHOOSE why \in
        { IF acc.res = Ok("false")
          THEN "bail: in session but can't access secret"
          ELSE IF ~acc.res.ok /\ ~assert_failpoint_err(acc.res)
          THEN Genuine(acc.res)
          ELSE "running" :
          acc \in {can_access_secret(st.db, st.fp, session)} } : TRUE

\* `for session in &sessions`: the checks change nothing, so the entries that stop
\* the run are the same in every iteration order, and any of them may come first.
SessionChecks(st) ==
    IF \A u \in st.sessions : CheckSession(st, u) = "running"
    THEN {st}
    ELSE {Stop(st, why) : why \in {CheckSession(st, u) : u \in st.sessions} \ {"running"}}

\* One iteration of `for op in ops`: the match, then the two loops of checks.
SimStep(st, op) ==
    UNION { IF s1.outcome # "running"
            THEN {s1}
            ELSE UNION { IF s2.outcome # "running" THEN {s2} ELSE SessionChecks(s2) :
                         s2 \in RegisteredChecks(s1) } :
            s1 \in HandleOp(st, op) }

Handle(op) ==
    /\ outcome = "running"
    /\ nops < MaxOps
    /\ \E st \in SimStep(SimState, op) :
          /\ users' = st.db.users
          /\ sessions' = st.db.sessions
          /\ armed' = st.fp
          /\ not_registered' = st.not_registered
          /\ registered' = st.registered
          /\ sim_sessions' = st.sessions
          /\ no_session' = st.no_session
          /\ outcome' = st.outcome
    /\ nops' = nops + 1
    /\ UNCHANGED <<logged, callers, replay, codec, locks>>

\* The vector is exhausted: Ok(true).
Return ==
    /\ outcome = "running"
    /\ outcome' = "Ok(true)"
    /\ UNCHANGED <<users, sessions, armed, logged, not_registered, registered,
                   sim_sessions, no_session, nops, callers, replay, codec, locks>>

SimNext ==
    \/ \E u \in UserIds, p \in Passwords :
          Handle([kind |-> "Register", user |-> u, pass |-> p])
    \/ \E u \in UserIds : Handle([kind |-> "LoginWithCorrectPw", user |-> u])
    \/ \E u \in UserIds : Handle([kind |-> "LoginWithWrongPw", user |-> u])
    \/ \E u \in UserIds : Handle([kind |-> "Logout", user |-> u])
    \/ \E u \in UserIds : Handle([kind |-> "AccessSecret", user |-> u])
    \/ \E n \in FailPoints : Handle([kind |-> "Fail", name |-> n])
    \/ Return

SimSpec == Init /\ [][SimNext]_vars

(* ------------- run_simulator twice in one process: ReplaySpec ---------- *)

\* Two runs of run_simulator on the same operation vector, taken through the vector
\* side by side.  The first (the simulator's variables) is the run of a process that
\* executed nothing before it.  The second (replay) starts, like every run, from
\* FailDb::new(in_memory_db::init_db()), but in a process where earlier runs have
\* executed Op::Fail: the registry of the fail crate is a static of the process,
\* run_simulator never clears it, and so the run finds armed what they armed.
ReplayIds == {UserText(i) : i \in 1..NumReplayed}

ReplayInit ==
    /\ InitStore
    /\ logged = [u \in UserIds |-> "never"]
    /\ InitSim
    /\ callers = [t \in Callers |-> Idle]
    /\ \E earlier \in SUBSET FailPoints : replay = [SimState EXCEPT !.fp = earlier]
    /\ codec = NoCodec
    /\ locks = NoLocks

\* One operation of the vector, handled by each of the two runs that has not
\* returned yet.
ReplayHandle(op) ==
    /\ outcome = "running" \/ replay.outcome = "running"
    /\ nops < MaxReplayOps
    /\ \E st \in (IF outcome = "running" THEN SimStep(SimState, op) ELSE {SimState}) :
          /\ users' = st.db.users
          /\ sessions' = st.db.sessions
          /\ armed' = st.fp
          /\ not_registered' = st.not_registered
          /\ registered' = st.registered
          /\ sim_sessions' = st.sessions
          /\ no_session' = st.no_session
          /\ outcome' = st.outcome
    /\ replay' \in (IF replay.outcome = "running" THEN SimStep(replay, op) ELSE {replay})
    /\ nops' = nops + 1
    /\ UNCHANGED <<logged, callers, codec, locks>>

\* The vector is exhausted: each run that is still going returns Ok(true).
ReplayReturn ==
    /\ outcome = "running" \/ replay.outcome = "running"
    /\ outcome' = IF outcome = "running" THEN "Ok(true)" ELSE outcome
    /\ replay' = IF replay.outcome = "running" THEN Stop(replay, "Ok(true)") ELSE replay
    /\ UNCHANGED <<users, sessions, armed, logged, not_registered, registered,
                   sim_sessions, no_session, nops, callers, codec, locks>>

ReplayNext ==
    \/ \E u \in ReplayIds, p \in Passwords :
          ReplayHandle([kind |-> "Register", user |-> u, pass |-> p])
    \/ \E u \in ReplayIds : ReplayHandle([kind |-> "LoginWithCorrectPw", user |-> u])
    \/ \E u \in ReplayIds : ReplayHandle([kind |-> "LoginWithWrongPw", user |-> u])
    \/ \E u \in ReplayIds : ReplayHandle([kind |-> "Logout", user |-> u])
    \/ \E u \in ReplayIds : ReplayHandle([kind |-> "AccessSecret", user |-> u])
    \/ \E n \in FailPoints : ReplayHandle([kind |-> "Fail", name |-> n])
    \/ ReplayReturn

ReplaySpec == ReplayInit /\ [][ReplayNext]_vars

(* ------------------------ the codec alone: CodecSpec -------------------- *)

\* parse_basic_auth_roundtrip (domain.rs): an identity and a secret are drawn, the
\* header is built from them as auth_header builds it, and parse_auth reads it.
\* Text is drawn over an alphabet of a letter, the colon, a control character
\* (line feed) and a two-byte character (U+00E9), up to MaxTextLen characters; the
\* empty text is among them.
Chars == {<<65>>, <<Colon>>, <<10>>, <<195, 169>>}

RECURSIVE TextsOf(_)
TextsOf(n) ==
    IF n = 0 THEN {<<>>}
    ELSE {<<>>} \cup {c \o t : c \in Chars, t \in TextsOf(n - 1)}

Texts == TextsOf(MaxTextLen)

NoColon(s) == \A i \in 1..Len(s) : s[i] # Colon

CodecInit ==
    /\ InitStore
    /\ logged = [u \in UserIds |-> "never"]
    /\ InitSim
    /\ callers = [t \in Callers |-> Idle]
    /\ replay = SimState
    /\ \E user \in Texts, pass \in Texts :
          codec = [NoCodec EXCEPT !.user = user, !.pass = pass]
    /\ locks = NoLocks

BuildHeader ==
    /\ codec.header = <<>>
    /\ codec' = [codec EXCEPT !.header = auth_header(codec.user, codec.pass)]
    /\ UNCHANGED <<users, sessions, armed, logged, sim, callers, replay, locks>>

ParseHeader ==
    /\ codec.header # <<>>
    /\ codec.parsed = Pending
    /\ codec' = [codec EXCEPT !.parsed = parse_auth(codec.header)]
    /\ UNCHANGED <<users, sessions, armed, logged, sim, callers, replay, locks>>

CodecNext == BuildHeader \/ ParseHeader

CodecSpec == CodecInit /\ [][CodecNext]_vars

(* ------------- the decorator under any fail-point names: DecoSpec -------- *)

\* Op::Fail carries any String, and fail::cfg accepts a name no fail_point! of the
\* program bears: it enters the registry like the others.
UnknownFailPoint == "db.unknown"
FailPointNames == FailPoints \cup {UnknownFailPoint}
DecoratedIds == {UserText(i) : i \in 1..NumDecorated}

DecoNext ==
    \/ \E u \in DecoratedIds, p \in Passwords : Register(u, p) /\ UNCHANGED <<logged, sim, callers, replay, codec, locks>>
    \/ \E h \in HeadersOf(DecoratedIds) : Login(h) /\ UNCHANGED <<logged, sim, callers, replay, codec, locks>>
    \/ \E h \in HeadersOf(DecoratedIds) : Logout(h) /\ UNCHANGED <<logged, sim, callers, replay, codec, locks>>
    \/ \E u \in DecoratedIds : AccessSecret(u) /\ UNCHANGED <<logged, sim, callers, replay, codec, locks>>
    \/ \E n \in FailPointNames : Fail(n) /\ UNCHANGED <<logged, sim, callers, replay, codec, locks>>

DecoSpec == Init /\ [][DecoNext]_vars

(* ---------------------- concurrent callers: ConcSpec -------------------- *)

\* Callers share one store and the fail-point registry.  A storage call through the
\* decorator is two steps: the fail_point! check on entry, then the wrapped store's
\* method, which holds its container's lock from its first line to its return.
\* Other callers' steps fall between the two, and between the storage calls of one
\* domain operation.  What a call returns to its caller is not kept.
SharedIds == {UserText(i) : i \in 1..NumShared}

Goto(t, pc_, user_id, pass) ==
    callers' = [callers EXCEPT ![t] = [pc |-> pc_, user |-> user_id, pass |-> pass]]

\* register: encode, then FailDb::register up to its fail point.
CallRegister(t, user_id, pass) ==
    /\ callers[t].pc = "idle"
    /\ IF fail_point(armed, "db.register")
       THEN UNCHANGED callers
       ELSE Goto(t, "register", user_id, pass)
    /\ UNCHANGED <<users, sessions, armed>>

DoRegister(t) ==
    /\ callers[t].pc = "register"
    /\ \E o \in Db_register(Db, callers[t].user, encode(callers[t].pass)) :
          /\ users' = o.db.users
          /\ sessions' = o.db.sessions
    /\ Goto(t, "idle", <<>>, <<>>)
    /\ UNCHANGED armed

\* login: parse_auth, then FailDb::get_pw up to its fail point.
CallLogin(t, auth_header_) ==
    LET parsed == parse_auth(auth_header_)
    IN  /\ callers[t].pc = "idle"
        /\ IF parsed.err # "none" \/ fail_point(armed, "db.get_pw")
           THEN UNCHANGED callers
           ELSE Goto(t, "get_pw", parsed.user, parsed.pass)
        /\ UNCHANGED <<users, sessions, armed>>

\* DoGetPw with login's None arm lost: an absent credential goes on to add_session.
DoGetPw_none_proceeds(t) ==
    LET got == Db_get_pw(Db, callers[t].user)
    IN  /\ callers[t].pc = "get_pw"
        /\ IF got.res.val = "None" \/ verify(got.val, callers[t].pass)
           THEN Goto(t, "verified", callers[t].user, callers[t].pass)
           ELSE Goto(t, "idle", <<>>, <<>>)
        /\ UNCHANGED <<users, sessions, armed>>

\* DoGetPw with login's verify lost: any secret goes on to add_session.
DoGetPw_unverified(t) ==
    LET got == Db_get_pw(Db, callers[t].user)
    IN  /\ callers[t].pc = "get_pw"
        /\ IF got.res.val = "Some"
           THEN Goto(t, "verified", callers[t].user, callers[t].pass)
           ELSE Goto(t, "idle", <<>>, <<>>)
        /\ UNCHANGED <<users, sessions, armed>>

\* Db::get_pw, and login's match on what it returned, up to the call of add_session.
DoGetPw(t) ==
    LET got == Db_get_pw(Db, callers[t].user)
    IN  /\ callers[t].pc = "get_pw"
        /\ IF got.res.val = "Some" /\ verify(got.val, callers[t].pass)
           THEN Goto(t, "verified", callers[t].user, callers[t].pass)
           ELSE Goto(t, "idle", <<>>, <<>>)
        /\ UNCHANGED <<users, sessions, armed>>

\* FailDb::add_session up to its fail point.
CallAddSession(t) ==
    /\ callers[t].pc = "verified"
    /\ IF fail_point(armed, "db.add_session")
       THEN Goto(t, "idle", <<>>, <<>>)
       ELSE Goto(t, "add_session", callers[t].user, callers[t].pass)
    /\ UNCHANGED <<users, sessions, armed>>

DoAddSession(t) ==
    LET o == Db_add_session(Db, callers[t].user)
    IN  /\ callers[t].pc = "add_session"
        /\ users' = o.db.users
        /\ sessions' = o.db.sessions
        /\ Goto(t, "idle", <<>>, <<>>)
        /\ UNCHANGED armed

\* logout: parse_auth, then FailDb::remove_session up to its fail point.
CallLogout(t, auth_header_) ==
    LET parsed == parse_auth(auth_header_)
    IN  /\ callers[t].pc = "idle"
        /\ IF parsed.err # "none" \/ fail_point(armed, "db.remove_session")
           THEN UNCHANGED callers
           ELSE Goto(t, "remove_session", parsed.user, <<>>)
        /\ UNCHANGED <<users, sessions, armed>>

DoRemoveSession(t) ==
    LET o == Db_remove_session(Db, callers[t].user)
    IN  /\ callers[t].pc = "remove_session"
        /\ users' = o.db.users
        /\ sessions' = o.db.sessions
        /\ Goto(t, "idle", <<>>, <<>>)
        /\ UNCHANGED armed

\* can_access_secret: FailDb::has_session up to its fail point.
CallAccessSecret(t, user_id) ==
    /\ callers[t].pc = "idle"
    /\ IF fail_point(armed, "db.has_session")
       THEN UNCHANGED callers
       ELSE Goto(t, "has_session", user_id, <<>>)
    /\ UNCHANGED <<users, sessions, armed>>

DoHasSession(t) ==
    LET o == Db_has_session(Db, callers[t].user)
    IN  /\ callers[t].pc = "has_session"
        /\ users' = o.db.users
        /\ sessions' = o.db.sessions
        /\ Goto(t, "idle", <<>>, <<>>)
        /\ UNCHANGED armed

ConcNext ==
    \/ \E t \in Callers, u \in SharedIds, p \in Passwords :
          CallRegister(t, u, p) /\ UNCHANGED <<logged, sim, replay, codec, locks>>
    \/ \E t \in Callers : DoRegister(t) /\ UNCHANGED <<logged, sim, replay, codec, locks>>
    \/ \E t \in Callers, h \in HeadersOf(SharedIds) :
          CallLogin(t, h) /\ UNCHANGED <<logged, sim, replay, codec, locks>>
    \/ \E t \in Callers : DoGetPw(t) /\ UNCHANGED <<logged, sim, replay, codec, locks>>
    \/ \E t \in Callers : CallAddSession(t) /\ UNCHANGED <<logged, sim, replay, codec, locks>>
    \/ \E t \in Callers : DoAddSession(t) /\ UNCHANGED <<logged, sim, replay, codec, locks>>
    \/ \E t \in Callers, h \in HeadersOf(SharedIds) :
          CallLogout(t, h) /\ UNCHANGED <<logged, sim, replay, codec, locks>>
    \/ \E t \in Callers : DoRemoveSession(t) /\ UNCHANGED <<logged, sim, replay, codec, locks>>
    \/ \E t \in Callers, u \in SharedIds :
          CallAccessSecret(t, u) /\ UNCHANGED <<logged, sim, replay, codec, locks>>
    \/ \E t \in Callers : DoHasSession(t) /\ UNCHANGED <<logged, sim, replay, codec, locks>>
    \/ \E n \in FailPoints : Fail(n) /\ UNCHANGED <<logged, sim, callers, replay, codec, locks>>

ConcSpec == Init /\ [][ConcNext]_vars

(* ------------------- the mutexes of the store: LockSpec ------------------ *)

\* ConcSpec with the store's two mutexes.  A method of in_memory_db::Db is two
\* steps: lock() on the mutex of its container, which waits while another caller
\* is inside that mutex's guard, and then the map operation up to the return, where
\* the guard goes out of scope and the mutex is released.  The fail_point! check of
\* the decorator comes before the lock().
LockedIds == {UserText(i) : i \in 1..NumLocked}

\* The storage call a caller is in, if any, and the mutex its method locks.
InStore == {"register", "get_pw", "add_session", "remove_session", "has_session"}
MutexOf(pc_) == IF pc_ \in {"register", "get_pw"} THEN "users" ELSE "sessions"

\* self.users.lock().unwrap() / self.sessions.lock().unwrap()
Lock(t) ==
    /\ callers[t].pc \in InStore
    /\ locks[MutexOf(callers[t].pc)] = Free
    /\ locks' = [locks EXCEPT ![MutexOf(callers[t].pc)] = t]
    /\ UNCHANGED <<users, sessions, armed, callers>>

\* The end of a method as it would be if its guard outlived the return.
Unlock_leaks(t, mutex) ==
    /\ locks[mutex] = t
    /\ UNCHANGED locks

\* The MutexGuard dropped where the method returns.
Unlock(t, mutex) ==
    /\ locks[mutex] = t
    /\ locks' = [locks EXCEPT ![mutex] = Free]

\* What a caller does without waiting for anyone.
Proceed(t) ==
    \/ CallAddSession(t) /\ UNCHANGED <<logged, sim, replay, codec, locks>>
    \/ DoRegister(t) /\ Unlock(t, "users") /\ UNCHANGED <<logged, sim, replay, codec>>
    \/ DoGetPw(t) /\ Unlock(t, "users") /\ UNCHANGED <<logged, sim, replay, codec>>
    \/ DoAddSession(t) /\ Unlock(t, "sessions") /\ UNCHANGED <<logged, sim, replay, codec>>
    \/ DoRemoveSession(t) /\ Unlock(t, "sessions") /\ UNCHANGED <<logged, sim, replay, codec>>
    \/ DoHasSession(t) /\ Unlock(t, "sessions") /\ UNCHANGED <<logged, sim, replay, codec>>

Wait(t) == Lock(t) /\ UNCHANGED <<logged, sim, replay, codec>>

LockNext ==
    \/ \E t \in Callers, u \in LockedIds, p \in Passwords :
          CallRegister(t, u, p) /\ UNCHANGED <<logged, sim, replay, codec, locks>>
    \/ \E t \in Callers, h \in HeadersOf(LockedIds) :
          CallLogin(t, h) /\ UNCHANGED <<logged, sim, replay, codec, locks>>
    \/ \E t \in Callers, h \in HeadersOf(LockedIds) :
          CallLogout(t, h) /\ UNCHANGED <<logged, sim, replay, codec, locks>>
    \/ \E t \in Callers, u \in LockedIds :
          CallAccessSecret(t, u) /\ UNCHANGED <<logged, sim, replay, codec, locks>>
    \/ \E t \in Callers : Wait(t)
    \/ \E t \in Callers : Proceed(t)
    \/ \E n \in FailPoints : Fail(n) /\ UNCHANGED <<logged, sim, callers, replay, codec, locks>>

\* A caller that can go on does (its thread is scheduled), and a caller in lock()
\* gets a mutex that is released again and again (it is not passed over for ever).
LockSpec ==
    /\ Init
    /\ [][LockNext]_vars
    /\ \A t \in Callers : WF_vars(Proceed(t)) /\ SF_vars(Wait(t))

(* ------------------------------- claims -------------------------------- *)

\* What a storage or domain call returns when its fail point is armed: the injected
\* DbError, without a call on the wrapped store and with the store as it was.
IsInjected(o, name, db) ==
    /\ o.res = Err("DbError", FailpointMessage(name))
    /\ o.calls = <<>>
    /\ o.db = db

\* C1 (register-then-authenticate): in every store the operations reach with no
\* trigger armed, whenever register(id, s) succeeds, the login that follows it with
\* the token for (id, s) returns Ok(true) and can_access_secret(id) is true after it.
RegisterThenAuthenticate ==
    armed = {} =>
        \A u \in UserIds, p \in Passwords :
            \A r \in register(Db, armed, u, p) :
                r.res = Ok("()") =>
                    LET l == login(r.db, armed, auth_header(u, p))
                    IN  /\ l.res = Ok("true")
                        /\ can_access_secret(l.db, armed, u).res = Ok("true")

\* C1's case: no trigger armed, every identity of the pool registered (the later
\* registrations met a full table) and logged in.
RegisterThenAuthenticateWitness ==
    /\ armed = {}
    /\ DOMAIN users = UserIds
    /\ sessions = UserIds

\* C2 (lasting credentials): with no trigger armed, a successful registration of
\* another identity never makes a login fail that succeeded before it: every
\* registered identity can still log in with the secret it registered.
LastingCredentials ==
    armed = {} =>
        \A u \in DOMAIN users, p \in Passwords :
            login(Db, armed, auth_header(u, p)).res = Ok("true") =>
                \A other \in UserIds \ {u}, q \in Passwords :
                    \A r \in register(Db, armed, other, q) :
                        r.res = Ok("()") =>
                            login(r.db, armed, auth_header(u, p)).res = Ok("true")

\* C4 (wrong-secret rejection): with no trigger armed, once register(id, s) has
\* succeeded, and whatever other identity registers after it, a login with the token
\* for (id, s'), s' # s, returns InvalidCredentials and leaves can_access_secret(id)
\* as it was.
WrongSecretRejected ==
    armed = {} =>
        \A u \in UserIds, s \in Passwords :
            \A r \in register(Db, armed, u, s) :
                r.res = Ok("()") =>
                    \A other \in UserIds \ {u}, q \in Passwords :
                        \A r2 \in register(r.db, armed, other, q) :
                            \A wrong \in Passwords \ {s} :
                                LET l == login(r2.db, armed, auth_header(u, wrong))
                                IN  /\ l.res = Err("InvalidCredentials", "")
                                    /\ can_access_secret(l.db, armed, u).res
                                         = can_access_secret(r2.db, armed, u).res

\* C6 (injected-failure transparency): a storage call through the decorator whose
\* trigger is armed returns the injected error, does not call the wrapped store and
\* leaves the Credential Table and the Session Set as they were; so a logout of an
\* identity with an open session under an armed db.remove_session returns the
\* injected error and can_access_secret of the identity is still true.
InjectedFailureTransparency ==
    \A u \in UserIds, p \in Passwords :
        /\ "db.register" \in armed =>
              \A o \in FailDb_register(Db, armed, u, encode(p)) :
                  IsInjected(o, "db.register", Db)
        /\ "db.add_session" \in armed =>
              IsInjected(FailDb_add_session(Db, armed, u), "db.add_session", Db)
        /\ "db.remove_session" \in armed =>
              IsInjected(FailDb_remove_session(Db, armed, u), "db.remove_session", Db)
        /\ "db.get_pw" \in armed =>
              IsInjected(FailDb_get_pw(Db, armed, u), "db.get_pw", Db)
        /\ "db.has_session" \in armed =>
              IsInjected(FailDb_has_session(Db, armed, u), "db.has_session", Db)
        /\ ("db.remove_session" \in armed /\ u \in sessions) =>
              LET o == logout(Db, armed, auth_header(u, p))
              IN  /\ IsInjected(o, "db.remove_session", Db)
                  /\ "db.has_session" \notin armed =>
                        can_access_secret(o.db, armed, u).res = Ok("true")

\* C6's case: alice's session is open and the close-session trigger alone is armed.
InjectedFailureTransparencyWitness ==
    /\ armed = {"db.remove_session"}
    /\ UserText(1) \in sessions

\* C7: with no trigger armed, a login with the token of an identity that has no
\* Credential Table entry returns the error NotRegistered, and can_access_secret of
\* the identity is false after it.
UnregisteredLoginIsNotRegistered ==
    armed = {} =>
        \A u \in UserIds \ DOMAIN users, p \in Passwords :
            LET l == login(Db, armed, auth_header(u, p))
            IN  /\ l.res = Err("NotRegistered", "")
                /\ can_access_secret(l.db, armed, u).res = Ok("false")

NoAccessWithoutLogin ==
    \A u \in TrackedIds :
        logged[u] = "never" => can_access_secret(Db, armed, u).res = Ok("false")

\* C3 as amended: for every identity no login of which has returned success,
\* can_access_secret never returns true: it returns false, or the injected error
\* when db.has_session is armed.
NoAccessWithoutLoginOrInjected ==
    \A u \in TrackedIds :
        logged[u] = "never" =>
            can_access_secret(Db, armed, u).res =
                IF "db.has_session" \in armed
                THEN Err("DbError", FailpointMessage("db.has_session"))
                ELSE Ok("false")

\* C3's case: a registered identity that never logged in with success, beside an
\* identity with an open session, with triggers armed.
NoAccessWithoutLoginWitness ==
    /\ UserText(1) \in DOMAIN users
    /\ logged[UserText(1)] = "never"
    /\ UserText(2) \in sessions
    /\ "db.add_session" \in armed

\* C5 as stated (deauthenticate clears access): after a successful login of id and
\* then a successful logout of id, with no successful login of id since,
\* can_access_secret(id) is false.
LogoutClearsAccess ==
    \A u \in TrackedIds :
        logged[u] = "out" => can_access_secret(Db, armed, u).res = Ok("false")

\* C5 as amended: after a successful login of id and then a successful logout of id,
\* with no successful login of id since, id is not in the Session Set:
\* can_access_secret(id) returns false, or the injected error when db.has_session is
\* armed.
LogoutClearsSession ==
    \A u \in TrackedIds :
        logged[u] = "out" =>
            /\ u \notin sessions
            /\ can_access_secret(Db, armed, u).res =
                  IF "db.has_session" \in armed
                  THEN Err("DbError", FailpointMessage("db.has_session"))
                  ELSE Ok("false")

\* C5's case: an identity that logged in and then out, with no trigger armed.
LogoutClearsAccessWitness ==
    /\ logged[UserText(1)] = "out"
    /\ armed = {}


\* C9 (I1): in every reachable store, whether the operations ran one after another
\* or interleaved between concurrent callers, and whichever triggers are armed,
\* every identity in the Session Set has an entry in the Credential Table.
SessionsAreRegistered == sessions \subseteq DOMAIN users

\* C9's case: a session is open and a trigger is armed while one caller is about
\* to add a session and the other is inside a registration.
SessionsAreRegisteredWitness ==
    /\ sessions # {}
    /\ armed # {}
    /\ \E t1, t2 \in Callers :
          /\ callers[t1].pc = "add_session"
          /\ callers[t2].pc = "register"

\* C10: run_simulator, started on a fresh store, returns Ok(true) on every finite
\* operation vector over the identity pool: no step yields an error that is not an
\* injected one, no consistency check bails, and no branch returns false.
SimulatorReturnsOkTrue == outcome \in {"running", "Ok(true)"}


\* C11: once the trigger of a storage operation is armed it stays armed: no step of
\* the stack takes a name out of the registry, and in the state after every step
\* each call of that operation through the decorator still returns the injected
\* error and leaves the store alone.
TriggerStaysArmed ==
    [][UNCHANGED vars \/ \A n \in armed :
          /\ n \in armed'
          /\ \A u \in UserIds :
                (CASE n = "db.register" ->
                        \A o \in FailDb_register(Db, armed, u, encode(Hunter2)) :
                            IsInjected(o, n, Db)
                   [] n = "db.add_session" ->
                        IsInjected(FailDb_add_session(Db, armed, u), n, Db)
                   [] n = "db.remove_session" ->
                        IsInjected(FailDb_remove_session(Db, armed, u), n, Db)
                   [] n = "db.get_pw" ->
                        IsInjected(FailDb_get_pw(Db, armed, u), n, Db)
                   [] n = "db.has_session" ->
                        IsInjected(FailDb_has_session(Db, armed, u), n, Db))']_vars

\* C11's case: every trigger armed, one after another, around a login that opened a
\* session: operations followed the first arming.
TriggerStaysArmedWitness ==
    /\ armed = FailPoints
    /\ sessions # {}


\* C12: run_simulator is deterministic and replayable: two runs on the same
\* operation vector return the same result, whatever runs the process executed
\* before either of them.
ReplayGivesSameResult ==
    (outcome # "running" /\ replay.outcome # "running") => outcome = replay.outcome


\* C13: logout uses the identity part of the token only: with no trigger armed, a
\* logout with the token of any identity and any secret (the registered one, a
\* wrong one, or one for an identity that never registered) returns Ok(()), takes
\* exactly that identity out of the Session Set, calls remove_session and nothing
\* else on the store, leaves the Credential Table as it was, and does the same for
\* every other secret.
LogoutIgnoresSecret ==
    armed = {} =>
        \A u \in UserIds, p \in Passwords :
            \E o \in {logout(Db, armed, auth_header(u, p))} :
                /\ o.res = Ok("()")
                /\ o.db.sessions = sessions \ {u}
                /\ o.db.users = users
                /\ o.calls = <<"remove_session">>
                /\ \A q \in Passwords : logout(Db, armed, auth_header(u, q)) = o

\* C13's case: no trigger armed, an identity with an open session, whose stored
\* secret is one of the pool and not the other, beside an unregistered identity.
LogoutIgnoresSecretWitness ==
    /\ armed = {}
    /\ UserText(1) \in sessions
    /\ UserText(1) \in DOMAIN users
    /\ UserText(2) \notin DOMAIN users


\* C14: token round trip: for every identity that contains no colon and every
\* secret (empty, with colons, with control or non-ASCII characters), the header
\* "Basic " + base64(identity ":" secret) parses to exactly that identity and that
\* secret: the text is split at its first colon only.
TokenRoundTrip ==
    (codec.parsed # Pending /\ NoColon(codec.user)) =>
        codec.parsed = [err |-> "none", user |-> codec.user, pass |-> codec.pass]

\* C14's case: a header has been parsed whose identity has a two-byte character
\* and whose secret has a colon that is not its last character.
TokenRoundTripWitness ==
    /\ codec.parsed # Pending
    /\ codec.user = <<65, 195, 169>>
    /\ codec.pass = <<Colon, 65, Colon>>


\* C15: frame of register: a successful register(id, c) on the store changes nothing
\* but the Credential Table entry of id, whatever the size of the table: no other
\* identity is added or dropped, every other identity keeps its credential, and
\* the Session Set is what it was.
RegisterFrame ==
    \A u \in UserIds, p \in Passwords :
        \A o \in Db_register(Db, u, encode(p)) :
            o.res.ok =>
                /\ o.db.sessions = sessions
                /\ DOMAIN o.db.users = DOMAIN users \cup {u}
                /\ o.db.users[u] = encode(p)
                /\ \A v \in DOMAIN users \ {u} : o.db.users[v] = users[v]


\* C16: the store bounds the number of registered identities: after any sequence
\* of register calls the Credential Table holds at most 4 (MaxUsers) entries.
CredentialTableBounded == Cardinality(DOMAIN users) <= MaxUsers


\* C17: decorator transparency and trigger independence: a storage call through
\* FailDb whose own fail point is not configured returns what the same call on the
\* wrapped store returns and leaves the store as that call leaves it, whichever
\* other fail points, and whichever names that belong to no fail point, are
\* configured.
FailDbTransparent ==
    \A u \in DecoratedIds :
        /\ "db.register" \notin armed =>
              \A p \in Passwords :
                  FailDb_register(Db, armed, u, encode(p)) = Db_register(Db, u, encode(p))
        /\ "db.add_session" \notin armed =>
              FailDb_add_session(Db, armed, u) = Db_add_session(Db, u)
        /\ "db.remove_session" \notin armed =>
              FailDb_remove_session(Db, armed, u) = Db_remove_session(Db, u)
        /\ "db.get_pw" \notin armed =>
              FailDb_get_pw(Db, armed, u) = Db_get_pw(Db, u)
        /\ "db.has_session" \notin armed =>
              FailDb_has_session(Db, armed, u) = Db_has_session(Db, u)

\* C17's case: the fail points of four operations and a name of no fail point are
\* configured, add_session's is not, and the store holds a credential and a
\* session.
FailDbTransparentWitness ==
    /\ armed = FailPointNames \ {"db.add_session"}
    /\ sessions # {}
    /\ DOMAIN users # {}


\* C18: login changes state only when it succeeds: whenever login returns anything
\* but Ok(true) (a decode error, InvalidCredentials, the storage error of get_pw or
\* of add_session, or its answer for an identity that is not registered), the
\* Session Set and the Credential Table are what they were; and add_session is
\* reached, on the wrapped store or at its fail point, only when get_pw has
\* returned the identity's credential and verify has accepted the secret.
LoginChangesOnlyOnSuccess ==
    \A h \in Headers :
        \E o \in {login(Db, armed, h)}, parsed \in {parse_auth(h)} :
            /\ o.res # Ok("true") => o.db = Db
            /\ o.db.users = users
            /\ (\/ \E i \in 1..Len(o.calls) : o.calls[i] = "add_session"
                \/ o.res = Err("DbError", FailpointMessage("db.add_session")))
               => /\ parsed.err = "none"
                  /\ "db.get_pw" \notin armed
                  /\ parsed.user \in DOMAIN users
                  /\ verify(users[parsed.user], parsed.pass)
                  /\ o.calls \in {<<"get_pw">>, <<"get_pw", "add_session">>}

\* C18's case: add_session's fail point alone is configured, one identity is
\* registered with a session open, another is registered with none (its login
\* with its secret fails at add_session, with the other secret at verify), and a
\* third is not registered.
LoginChangesOnlyOnSuccessWitness ==
    /\ armed = {"db.add_session"}
    /\ UserText(1) \in sessions
    /\ UserText(2) \in DOMAIN users \ sessions
    /\ UserText(3) \notin DOMAIN users


\* C19: the oracle of run_simulator stays self-consistent: after every step of every
\* operation vector no identity is in both `sessions` and `no_session`, none is in
\* both `registered` and `not_registered`, and the run has not ended in the bail!
\* of either check.
OracleSelfConsistent ==
    /\ sim_sessions \cap no_session = {}
    /\ DOMAIN registered \cap not_registered = {}
    /\ outcome \notin {"bail: in session and no_session at once",
                       "bail: in registered and unregistered at once"}


\* C20: oracle agreement: at the end of every step of run_simulator that does not
\* end the run, the oracle's `sessions` holds an identity exactly when the Session
\* Set of the store holds it, the round-trip checks whose second half fails by an
\* injected error included.
OracleAgreesWithStore == outcome = "running" => sim_sessions = sessions


\* C20's case: after Register and Fail("db.remove_session") the run goes on: the
\* login-then-logout check of the registered identity has opened its session and
\* failed to close it.
OracleAgreesWithStoreWitness ==
    /\ outcome = "running"
    /\ nops = 2
    /\ armed = {"db.remove_session"}
    /\ sim_sessions # {}


\* C22: under concurrent callers, whenever login adds an identity to the Session
\* Set, the secret it verified matches the credential stored for the identity at
\* the moment the session is added: no register of another caller takes effect
\* between login's get_pw and its add_session.
LoginAddsForStoredCredential ==
    [][UNCHANGED vars \/
       \A t \in Callers :
           (callers[t].pc = "add_session" /\ callers'[t].pc = "idle") =>
               /\ callers[t].user \in DOMAIN users
               /\ verify(users[callers[t].user], callers[t].pass)]_vars

\* C22 as the code has it: the secret login verified matches the credential that
\* its get_pw read, at the moment of that read; and when the session is added the
\* identity still has a credential, which a register in between may have changed.
LoginAddsForCredentialRead ==
    [][UNCHANGED vars \/
       \A t \in Callers :
           /\ (callers[t].pc = "get_pw" /\ callers'[t].pc = "verified") =>
                 /\ callers[t].user \in DOMAIN users
                 /\ verify(users[callers[t].user], callers[t].pass)
                 /\ callers'[t].user = callers[t].user
                 /\ callers'[t].pass = callers[t].pass
           /\ (callers[t].pc = "verified" /\ callers'[t].pc = "add_session") =>
                 /\ callers'[t].user = callers[t].user
                 /\ callers'[t].pass = callers[t].pass
           /\ (callers[t].pc = "add_session" /\ callers'[t].pc = "idle") =>
                 /\ callers[t].user \in DOMAIN users
                 /\ sessions' = sessions \cup {callers[t].user}]_vars

\* C22's case: a caller's login is about to add the session of an identity whose
\* stored credential is no longer the secret the login verified.
LoginAddsForCredentialReadWitness ==
    \E t \in Callers :
        /\ callers[t].pc = "add_session"
        /\ callers[t].user \in DOMAIN users
        /\ ~verify(users[callers[t].user], callers[t].pass)


\* C21: lock discipline: under every interleaving of concurrent callers on one
\* store, a caller is inside the guard of at most one of the two mutexes, and only
\* of the mutex of the container the storage operation it is in works on, so a
\* caller outside every storage operation holds none; a container changes only in
\* a step of the caller inside its mutex, which releases it in that step; and
\* every call that has begun returns: no interleaving of register, login, logout
\* and can_access_secret deadlocks.
LockDiscipline ==
    /\ [](\A t \in Callers :
             /\ ~(locks.users = t /\ locks.sessions = t)
             /\ \A mutex \in DOMAIN locks :
                   locks[mutex] = t =>
                       callers[t].pc \in InStore /\ MutexOf(callers[t].pc) = mutex)
    /\ [][UNCHANGED vars \/
          /\ users' # users => locks.users # Free /\ locks'.users = Free
          /\ sessions' # sessions => locks.sessions # Free /\ locks'.sessions = Free
          /\ \A t \in Callers :
                (callers[t].pc \in InStore /\ callers'[t].pc # callers[t].pc) =>
                    /\ locks[MutexOf(callers[t].pc)] = t
                    /\ locks'[MutexOf(callers[t].pc)] = Free]_vars
    /\ \A t \in Callers : callers[t].pc # "idle" ~> callers[t].pc = "idle"

\* C21's case: both mutexes are held at once, by two callers: one inside register,
\* the other inside the add_session of its login.
LockDisciplineWitness ==
    \E t1, t2 \in Callers :
        /\ locks.users = t1 /\ callers[t1].pc = "register"
        /\ locks.sessions = t2 /\ callers[t2].pc = "add_session"

==============================================================================
